---------------------------- MODULE Spec2Model ----------------------------
(***************************************************************************)
(* A state machine for the growth-curve pipeline of                        *)
(* growth_curves/main.py and growth_curves/generate_output_report.py:      *)
(* main()'s setup, compute_growth_curves' plotter and combination loop,    *)
(* the pickled results and generate_output_report's content.               *)
(*                                                                         *)
(* Column, tissue and biomarker names are strings, modelled as sequences   *)
(* of one-character strings so that split('_'), endswith and the substring *)
(* test `x in col` are computed as Python computes them.                   *)
(***************************************************************************)
EXTENDS Integers, Sequences, FiniteSets, TLC

(***************************************************************************)
(* Bounds of the model.                                                    *)
(***************************************************************************)
\* values given to -t and -b together
MaxArgs == 3
MaxSexLabels == 4
\* iterations of the combination loop in one run
MaxCombinations == 3

\* Python's None and an unbound local are the empty option; Some(x) holds x.
None == {}
Some(x) == {x}
The(o) == CHOOSE x \in o : TRUE
NoError == "none"

(***************************************************************************)
(* Strings.                                                                *)
(***************************************************************************)
US == "_"
GM == <<"G", "M">>
WM == <<"W", "M">>
FA == <<"F", "A">>
MD == <<"M", "D">>

\* f"{tissue}_{biomarker}"
Join(a, b) == a \o <<US>> \o b

\* str.endswith
EndsWith(s, suf) ==
    /\ Len(suf) <= Len(s)
    /\ SubSeq(s, Len(s) - Len(suf) + 1, Len(s)) = suf

\* the substring test `sub in s`
Contains(sub, s) ==
    \E i \in 1..(Len(s) - Len(sub) + 1) : SubSeq(s, i, i + Len(sub) - 1) = sub

\* s.split('_')[0]
FirstSeg(s) ==
    IF \E i \in 1..Len(s) : s[i] = US
    THEN LET i == CHOOSE i \in 1..Len(s) :
                     s[i] = US /\ \A j \in 1..(i - 1) : s[j] # US
         IN SubSeq(s, 1, i - 1)
    ELSE s

\* s.split('_')[-1]
LastSeg(s) ==
    IF \E i \in 1..Len(s) : s[i] = US
    THEN LET i == CHOOSE i \in 1..Len(s) :
                     s[i] = US /\ \A j \in (i + 1)..Len(s) : s[j] # US
         IN SubSeq(s, i + 1, Len(s))
    ELSE s

(***************************************************************************)
(* Python dicts: insertion-ordered sequences of <<key, value>> pairs.      *)
(***************************************************************************)
EmptyDict == << >>
Keys(d) == {d[i][1] : i \in 1..Len(d)}
Has(d, k) == \E i \in 1..Len(d) : d[i][1] = k
Get(d, k) == d[CHOOSE i \in 1..Len(d) : d[i][1] = k][2]
Put(d, k, v) ==
    IF Has(d, k)
    THEN [i \in 1..Len(d) |-> IF d[i][1] = k THEN <<k, v>> ELSE d[i]]
    ELSE Append(d, <<k, v>>)

(***************************************************************************)
(* Values the command line and the two spreadsheets are drawn from.        *)
(***************************************************************************)
SeqsUpTo(S, n) == UNION {[1..k -> S] : k \in 1..n}

TissueNames == {GM, WM}
BiomarkerNames == {FA, MD}
\* -t is optional (<< >> when absent), -b is required; both are nargs='+'
TissueArgs == {<< >>} \cup SeqsUpTo(TissueNames, MaxArgs - 1)
BiomarkerArgs == SeqsUpTo(BiomarkerNames, MaxArgs - 1)

\* biomarker columns a spreadsheet may hold
InputColumns == {Join(GM, FA), Join(WM, FA), Join(WM, MD)}
\* biomarker columns of the disease spreadsheets
DiseaseSheets == {{Join(GM, FA), Join(WM, FA)}, {Join(WM, MD)}}

\* the k-th sex label; labels sort as their numbers do
SexLabel(k) == k

VARIABLES
    args,                   \* parsed command line
    pc,                     \* position of the run
    exit_code,              \* None while running, then Some(0) or Some(1)
    error,                  \* the exception that ended the run, or NoError
    save_dir,               \* os.path.exists(save_path)
    files,                  \* files in the save directory
    pkl,                    \* content of results.pkl, or None
    pkl_writes,             \* number of pickle.dump calls
    disease_data,           \* None or the disease table's shape
    disease_tissue_map,     \* None or dict column -> tissue
    biomarker_columns,      \* list of column names
    biomarker_tissue_map,   \* dict column -> tissue
    input_data,             \* rows of the input sheet after dropna
    dropped,                \* history: number of rows dropna removed
    sex_labels,             \* unique_sex_labels
    si,                     \* position of the loop over sex_labels
    ci,                     \* position of the two inner loops, see Combos
    filtered_disease_data,  \* None or the disease rows of the current sex
    disease_cols,           \* matched disease columns of the current combination
    results,                \* Aggregated Results
    result,                 \* the local `result` of compute_growth_curves
    globalenv,              \* ro.globalenv
    attempts,               \* history: key -> number of iterations on that key
    raised,                 \* history: keys whose fitting call raised
    last,                   \* history: what the latest loop iteration did
    histogram,              \* None or the figure of the age distribution
    report                  \* None or what generate_output_report built

vars == <<args, pc, exit_code, error, save_dir, files, pkl, pkl_writes,
          disease_data, disease_tissue_map, biomarker_columns,
          biomarker_tissue_map, input_data, dropped, sex_labels, si, ci,
          filtered_disease_data, disease_cols, results,
          result, globalenv, attempts, raised, last, histogram, report>>

setup_vars == <<disease_data, disease_tissue_map, biomarker_columns,
                biomarker_tissue_map, input_data, dropped, sex_labels>>
loop_vars == <<si, ci, filtered_disease_data,
               disease_cols, results, result, globalenv, attempts, raised,
               last>>
out_vars == <<save_dir, files, pkl, pkl_writes, histogram, report>>

\* args.tissue_types if args.tissue_types else ['GM', 'WM']
tissue_types == IF args.tissue_types = << >> THEN <<GM, WM>> ELSE args.tissue_types
biomarker_types == args.biomarker_types

NoIteration ==
    [key |-> << >>, matching |-> FALSE, data_list |-> {}, subset_errors |-> {},
     fit |-> "none", with_disease |-> FALSE, stored |-> FALSE,
     overwrote |-> FALSE]

Init ==
    /\ args \in [tissue_types : TissueArgs, biomarker_types : BiomarkerArgs,
                 disease_data : BOOLEAN]
    /\ Len(args.tissue_types) + Len(args.biomarker_types) <= MaxArgs
    /\ pc = "start"
    /\ exit_code = None
    /\ error = NoError
    /\ save_dir \in BOOLEAN
    /\ files = {}
    /\ pkl = None
    /\ pkl_writes = 0
    /\ disease_data = None
    /\ disease_tissue_map = None
    /\ biomarker_columns = << >>
    /\ biomarker_tissue_map = EmptyDict
    /\ input_data = << >>
    /\ dropped = 0
    /\ sex_labels = << >>
    /\ si = 0 /\ ci = 0
    /\ filtered_disease_data = None
    /\ disease_cols = {}
    /\ results = EmptyDict
    /\ result = None
    /\ globalenv = EmptyDict
    /\ attempts = EmptyDict
    /\ raised = {}
    /\ last = NoIteration
    /\ histogram = None
    /\ report = None

\* an uncaught exception: the interpreter exits non-zero
Raise(e) ==
    /\ pc' = "aborted"
    /\ exit_code' = Some(1)
    /\ error' = e

Goto(p) ==
    /\ pc' = p
    /\ UNCHANGED <<exit_code, error>>

(***************************************************************************)
(* main(): setup.                                                          *)
(***************************************************************************)
\* os.makedirs(save_path) when it does not exist
MakeSaveDir ==
    /\ pc = "start"
    /\ save_dir' = TRUE
    /\ Goto("read_input")
    /\ UNCHANGED <<args, files, pkl, pkl_writes, histogram, report, setup_vars,
                   loop_vars>>

\* pd.read_excel(input_path) and the --group filter
ReadInput ==
    /\ pc = "read_input"
    /\ \E group, has_cohort \in BOOLEAN :
          IF group /\ ~has_cohort
          THEN Raise("ValueError: Cohort")
          ELSE Goto("read_disease")
    /\ UNCHANGED <<args, out_vars, setup_vars, loop_vars>>

\* [col for col in disease_data.columns if col.endswith(f"_{biomarker}")],
\* over the biomarker types
DiseaseBiomarkers(columns) ==
    {col \in columns :
        \E k \in 1..Len(biomarker_types) :
            EndsWith(col, <<US>> \o biomarker_types[k])}

\* disease_tissue_map[disease_col] = disease_col.split('_')[0]
DiseaseTissueMap(columns) ==
    [col \in DiseaseBiomarkers(columns) |-> FirstSeg(col)]

ReadDisease ==
    /\ pc = "read_disease"
    /\ IF args.disease_data
       THEN \E columns \in DiseaseSheets, has_sex, has_age \in BOOLEAN :
               IF DiseaseBiomarkers(columns) = {}
               THEN /\ Raise("ValueError: disease biomarkers")
                    /\ UNCHANGED <<disease_data, disease_tissue_map>>
               ELSE /\ disease_data' = Some([columns |-> columns,
                                             has_sex |-> has_sex,
                                             has_age |-> has_age])
                    /\ disease_tissue_map' = Some(DiseaseTissueMap(columns))
                    /\ Goto("find_sex")
       ELSE /\ Goto("find_sex")
            /\ UNCHANGED <<disease_data, disease_tissue_map>>
    /\ UNCHANGED <<args, out_vars, biomarker_columns, biomarker_tissue_map,
                   input_data, dropped, sex_labels, loop_vars>>

\* next(col for col in input_data.columns if "sex" in ... or "gender" in ...)
FindSexColumn ==
    /\ pc = "find_sex"
    /\ \E sex_column \in BOOLEAN :
          IF ~sex_column
          THEN Raise("ValueError: sex")
          ELSE Goto("biomarker_columns")
    /\ UNCHANGED <<args, out_vars, setup_vars, loop_vars>>

\* the (tissue, biomarker) pairs in the order of the two nested loops
NPairs == Len(tissue_types) * Len(biomarker_types)
PairTissue(k) == tissue_types[((k - 1) \div Len(biomarker_types)) + 1]
PairBiomarker(k) == biomarker_types[((k - 1) % Len(biomarker_types)) + 1]
ColumnName(k) == Join(PairTissue(k), PairBiomarker(k))

RECURSIVE BiomarkerColumnsFrom(_, _)
BiomarkerColumnsFrom(k, columns) ==
    IF k > NPairs THEN << >>
    ELSE (IF ColumnName(k) \in columns THEN <<ColumnName(k)>> ELSE << >>)
         \o BiomarkerColumnsFrom(k + 1, columns)

RECURSIVE BiomarkerTissueMapFrom(_, _, _)
BiomarkerTissueMapFrom(k, columns, map) ==
    IF k > NPairs THEN map
    ELSE BiomarkerTissueMapFrom(k + 1, columns,
            IF ColumnName(k) \in columns
            THEN Put(map, ColumnName(k), PairTissue(k))
            ELSE map)

BuildBiomarkerColumns ==
    /\ pc = "biomarker_columns"
    /\ \E columns \in SUBSET InputColumns :
          IF BiomarkerColumnsFrom(1, columns) = << >>
          THEN /\ Raise("ValueError: biomarker columns")
               /\ UNCHANGED <<biomarker_columns, biomarker_tissue_map>>
          ELSE /\ biomarker_columns' = BiomarkerColumnsFrom(1, columns)
               /\ biomarker_tissue_map' =
                      BiomarkerTissueMapFrom(1, columns, EmptyDict)
               /\ Goto("dropna")
    /\ UNCHANGED <<args, out_vars, disease_data, disease_tissue_map,
                   input_data, dropped, sex_labels, loop_vars>>

\* tissue_biomarkers = [b for b in biomarkers if biomarker_tissue_map[b] == t]
TissueBiomarkers(t) ==
    SelectSeq(biomarker_columns, LAMBDA b : Get(biomarker_tissue_map, b) = t)

RECURSIVE CombosFrom(_)
\* for t in tissue_types: for biomarker in tissue_biomarkers: the pairs
\* <<t, biomarker>> in the order the two inner loops visit them
CombosFrom(k) ==
    IF k > Len(tissue_types) THEN << >>
    ELSE [i \in 1..Len(TissueBiomarkers(tissue_types[k])) |->
             <<tissue_types[k], TissueBiomarkers(tissue_types[k])[i]>>]
         \o CombosFrom(k + 1)

Combos == CombosFrom(1)

\* a row of the input sheet: its sex value (None when missing) and the
\* biomarker columns in which its value is missing
Row(sex, age, missing) == [sex |-> sex, age |-> age, missing |-> missing]

\* the age of the complete row of sex label k
AgeOf(k) == 20 + 10 * k

\* the rows read from the input sheet: a row without a sex value, a row of
\* one more sex label that lacks a required value, one row for each of n sex
\* labels that lacks only the values of the columns that are not required,
\* and a second row of the last label that lacks a required value
InputSheet(n) ==
    LET required == {biomarker_columns[i] : i \in 1..Len(biomarker_columns)}
        first == biomarker_columns[1]
        final == biomarker_columns[Len(biomarker_columns)]
        spare == InputColumns \ required
        rows == [i \in 1..n |->
                    Row(Some(SexLabel(n + 1 - i)), AgeOf(n + 1 - i), spare)]
    IN <<Row(None, 1, {}), Row(Some(SexLabel(n + 1)), 99, {first})>>
       \o rows
       \o (IF n > 0 THEN <<Row(Some(SexLabel(1)), 5, {final})>> ELSE << >>)

\* dropna keeping the rows with a sex value only
DropNaSexOnly(rows, columns) ==
    SelectSeq(rows, LAMBDA r : r.sex # None)

\* input_data.dropna(subset=[sex_column] + biomarker_columns)
DropNaRows(rows, columns) ==
    SelectSeq(rows, LAMBDA r :
        /\ r.sex # None
        /\ \A i \in 1..Len(columns) : columns[i] \notin r.missing)

RECURSIVE Unique(_)
\* input_data[sex_column].unique(): the values in order of first appearance
Unique(rows) ==
    IF rows = << >> THEN << >>
    ELSE LET init == Unique(SubSeq(rows, 1, Len(rows) - 1))
             v == The(rows[Len(rows)].sex)
         IN IF \E i \in 1..Len(init) : init[i] = v THEN init
            ELSE Append(init, v)

\* colors = ['#1f77b4', '#ff7f0e', '#2ca02c'] of the age-distribution plot
NColors == 3

\* input_data.dropna(...) and input_data[sex_column].unique(); the bound on
\* the iterations applies to the runs that reach the combination loop, which
\* those with more sex labels than colors do not
DropNa ==
    /\ pc = "dropna"
    /\ \E n \in 0..MaxSexLabels :
          LET sheet == InputSheet(n)
              kept == DropNaRows(sheet, biomarker_columns)
          IN /\ \/ Len(Unique(kept)) > NColors
                \/ Len(Unique(kept)) * Len(Combos) <= MaxCombinations
             /\ input_data' = kept
             /\ dropped' = Len(sheet) - Len(kept)
             /\ sex_labels' = Unique(kept)
    /\ Goto("check_r")
    /\ UNCHANGED <<args, out_vars, disease_data, disease_tissue_map,
                   biomarker_columns, biomarker_tissue_map, loop_vars>>

\* a check that only fails once the results have been saved
CheckRAbortAfterSave ==
    /\ Raise("RuntimeError: R")
    /\ pkl' = Some(results)
    /\ pkl_writes' = pkl_writes + 1
    /\ files' = files \cup {<<"results.pkl">>}
    /\ UNCHANGED <<save_dir, histogram, report>>

\* raise RuntimeError("R is not installed. ...")
CheckRAbort ==
    /\ Raise("RuntimeError: R")
    /\ UNCHANGED out_vars

\* check_r_installed()
CheckR ==
    /\ pc = "check_r"
    /\ \E installed \in BOOLEAN :
          IF installed
          THEN Goto("plot") /\ UNCHANGED out_vars
          ELSE CheckRAbort
    /\ UNCHANGED <<args, setup_vars, loop_vars>>

(***************************************************************************)
(* compute_growth_curves: the age-distribution plot.                       *)
(***************************************************************************)
AgeDistributionPng == <<"dataset_age_distribution.png">>

\* np.linspace(all_ages.min(), all_ages.max(), 30): the number of edges
NBinEdges == 30

\* one plt.hist per sex label, colors[i] for the i-th; then plt.savefig
\* all_ages.min() and all_ages.max(); NaN, here None, without rows
AgeMin(rows) ==
    IF rows = << >> THEN None
    ELSE Some(CHOOSE a \in {rows[i].age : i \in 1..Len(rows)} :
                 \A i \in 1..Len(rows) : a <= rows[i].age)

AgeMax(rows) ==
    IF rows = << >> THEN None
    ELSE Some(CHOOSE a \in {rows[i].age : i \in 1..Len(rows)} :
                 \A i \in 1..Len(rows) : a >= rows[i].age)

\* np.linspace(start, stop, num): num evenly spaced values from start to
\* stop, both included; a value is given in units of 1/(num - 1), so that
\* start + (i - 1) * (stop - start) / (num - 1) is an integer
Linspace(start, stop, num) ==
    [i \in 1..num |->
        IF start = None THEN None
        ELSE Some(The(start) * (num - 1) + (i - 1) * (The(stop) - The(start)))]

\* gender_counts[gender]
GenderCount(rows, gender) ==
    Cardinality({i \in 1..Len(rows) : rows[i].sex = Some(gender)})

\* plt.hist(gender_ages, bins=bins, label=..., color=colors[i]) for the first
\* k sex labels
Series(bins, k) ==
    [i \in 1..k |-> [gender |-> sex_labels[i],
                     count |-> GenderCount(input_data, sex_labels[i]),
                     bins |-> bins,
                     color |-> i]]

\* the figure is drawn and closed without plt.savefig
PlotWithoutSave ==
    /\ pc = "plot"
    /\ LET bins == Linspace(AgeMin(input_data), AgeMax(input_data), NBinEdges)
       IN IF Len(sex_labels) > NColors
          THEN /\ Raise("IndexError: colors")
               /\ histogram' = Some([bins |-> bins,
                                     series |-> Series(bins, NColors)])
          ELSE /\ histogram' = Some([bins |-> bins,
                                     series |-> Series(bins, Len(sex_labels))])
               /\ Goto("sex_loop")
    /\ UNCHANGED <<args, save_dir, files, pkl, pkl_writes, report, setup_vars,
                   loop_vars>>

\* lines 97-122: bins, one histogram per sex label, savefig
PlotAgeDistribution ==
    /\ pc = "plot"
    /\ LET bins == Linspace(AgeMin(input_data), AgeMax(input_data), NBinEdges)
       IN IF Len(sex_labels) > NColors
          THEN /\ Raise("IndexError: colors")
               /\ histogram' = Some([bins |-> bins,
                                     series |-> Series(bins, NColors)])
               /\ UNCHANGED files
          ELSE /\ histogram' = Some([bins |-> bins,
                                     series |-> Series(bins, Len(sex_labels))])
               /\ files' = files \cup {AgeDistributionPng}
               /\ Goto("sex_loop")
    /\ UNCHANGED <<args, save_dir, pkl, pkl_writes, report, setup_vars,
                   loop_vars>>

(***************************************************************************)
(* compute_growth_curves: the combination loop.                            *)
(***************************************************************************)
\* for s in sex_labels: filter the disease table by the sex column
SexLoop ==
    /\ pc = "sex_loop"
    /\ si < Len(sex_labels)
    /\ IF disease_data # None
       THEN IF ~The(disease_data).has_sex
            THEN /\ Raise("KeyError: sex column")
                 /\ UNCHANGED <<si, ci, filtered_disease_data>>
            ELSE /\ \E rows \in BOOLEAN,
                       valid \in {{}, DOMAIN The(disease_tissue_map)} :
                       /\ valid # {} => rows /\ The(disease_data).has_age
                       /\ filtered_disease_data' =
                              Some([rows |-> rows, valid |-> valid])
                 /\ si' = si + 1
                 /\ ci' = 0
                 /\ Goto("combination")
       ELSE /\ filtered_disease_data' = None
            /\ si' = si + 1
            /\ ci' = 0
            /\ Goto("combination")
    /\ UNCHANGED <<args, out_vars, setup_vars, disease_cols, results, result,
                   globalenv, attempts, raised, last>>

\* has_disease_data_for_sex = len(filtered_disease_data) > 0
has_disease_data_for_sex ==
    filtered_disease_data # None /\ The(filtered_disease_data).rows

(***************************************************************************)
(* One combination: the body of the innermost loop.                        *)
(***************************************************************************)
\* what the external fitting script may return: model type, AIC, the four
\* distribution parameters (None when the family has none) and coefficients
FitShapes ==
    { [model_type |-> "NO", aic |-> Some(100), mu |-> Some(1),
       sigma |-> Some(2), nu |-> None, tau |-> None,
       coefs |-> [n \in {"(Intercept)"} |-> 7]],
      [model_type |-> "BCT", aic |-> None, mu |-> Some(1),
       sigma |-> Some(2), nu |-> Some(3), tau |-> Some(4),
       coefs |-> [n \in {"(Intercept)", "age"} |-> 8]] }

\* [col for col in disease_tissue_map.keys() if biomarker.split('_')[-1] in col]
DiseaseCols(biomarker) ==
    {col \in DOMAIN The(disease_tissue_map) : Contains(LastSeg(biomarker), col)}

\* building a subset raises when the disease table has no age column
SubsetErrors(cols) ==
    IF The(disease_data).has_age THEN {} ELSE cols

\* disease_data_list: the matched columns whose subset is not empty after dropna
DiseaseDataList(cols) ==
    {col \in cols \ SubsetErrors(cols) : col \in The(filtered_disease_data).valid}

\* for key, value in kwargs.items(): ro.globalenv[key] = value
RECURSIVE SetGlobals(_, _)
SetGlobals(env, kwargs) ==
    IF kwargs = << >> THEN env
    ELSE SetGlobals(Put(env, kwargs[1][1], kwargs[1][2]), Tail(kwargs))

Kwargs(s, biomarker) ==
    << <<"input_data", <<s>> >>, <<"column_x", <<"age">> >>,
       <<"column_y", biomarker>>, <<"sex", <<s>> >>,
       <<"save_path", <<"save_path">> >> >>

DiseaseKwargs(s, t, biomarker, list) ==
    << <<"input_data", <<s>> >>, <<"column_x", <<"age">> >>,
       <<"column_y", biomarker>>, <<"sex", <<s>> >>,
       <<"disease_data", <<s, biomarker, list>> >>,
       <<"tissue_column", <<"tissue_column">> >>,
       <<"save_path", <<"save_path">> >>, <<"tissue_type", t>> >>

\* the images the fitting script leaves in the save directory
RScriptImages(s, biomarker, with_disease) ==
    { IF with_disease
      THEN <<"centile_plot", s, biomarker, "disease">>
      ELSE <<"centile_plot", s, biomarker>>,
      <<"residuals", s, biomarker>> }

\* if t not in results: results[t] = {}; if s not in results[t]: ...
EnsureMaps(res, t, s) ==
    LET r1 == IF Has(res, t) THEN res ELSE Put(res, t, EmptyDict)
    IN IF Has(Get(r1, t), s) THEN r1
       ELSE Put(r1, t, Put(Get(r1, t), s, EmptyDict))

\* model_params = {...}: the converted fields of the R result
ModelParams(r) == r.fit

\* {"model_parameters": model_params, "centiles": rpy2py(centile_data)}
Entry(r) ==
    [model_parameters |-> ModelParams(r), centiles |-> <<r.sex, r.column_y>>]

\* results[t][s][biomarker] = {...}
Store(res, t, s, biomarker, r) ==
    LET r2 == EnsureMaps(res, t, s)
    IN Put(r2, t, Put(Get(r2, t), s, Put(Get(Get(r2, t), s), biomarker, Entry(r))))

HasEntry(res, t, s, biomarker) ==
    /\ Has(res, t)
    /\ Has(Get(res, t), s)
    /\ Has(Get(Get(res, t), s), biomarker)

Count(d, k) == IF Has(d, k) THEN Get(d, k) ELSE 0

\* lines 219-238 with `result` bound to r
Structure(t, s, biomarker, r) ==
    /\ results' = Store(results, t, s, biomarker, r)

\* lines 219-226 with `result` unbound: the maps are made, then
\* result.rx2 raises UnboundLocalError, which the except clause catches
StructureUnbound(t, s) ==
    /\ results' = EnsureMaps(results, t, s)

ProcessBiomarker ==
    /\ pc = "combination"
    /\ LET s == sex_labels[si]
           combos == Combos
           t == combos[ci + 1][1]
           biomarker == combos[ci + 1][2]
           key == <<t, s, biomarker>>
           matching == has_disease_data_for_sex /\ disease_tissue_map # None
           cols == IF matching THEN DiseaseCols(biomarker) ELSE {}
           list == IF matching THEN DiseaseDataList(cols) ELSE {}
           errs == IF matching THEN SubsetErrors(cols) ELSE {}
           with_disease == matching /\ cols # {}
           call == ~with_disease \/ list # {}
           kwargs == IF with_disease THEN DiseaseKwargs(s, t, biomarker, list)
                     ELSE Kwargs(s, biomarker)
           it == [key |-> key, matching |-> matching, data_list |-> list,
                  subset_errors |-> errs, fit |-> "none",
                  with_disease |-> with_disease, stored |-> FALSE,
                  overwrote |-> HasEntry(results, t, s, biomarker)]
       IN /\ ci' = ci + 1
          /\ Goto(IF ci + 1 < Len(combos) THEN "combination" ELSE "sex_loop")
          /\ disease_cols' = IF matching THEN cols ELSE disease_cols
          /\ attempts' = Put(attempts, key, Count(attempts, key) + 1)
          /\ IF call
             THEN /\ globalenv' = SetGlobals(globalenv, kwargs)
                  /\ \/ \* the script raises: except ...: continue
                        /\ UNCHANGED <<results, result, files>>
                        /\ raised' = raised \cup {key}
                        /\ last' = [it EXCEPT !.fit = "raised",
                                              !.overwrote = FALSE]
                     \/ \* the script returns
                        \E shape \in FitShapes :
                          LET r == [sex |-> s, column_y |-> biomarker,
                                    fit |-> shape]
                          IN /\ result' = Some(r)
                             /\ files' = files \cup
                                    RScriptImages(s, biomarker, with_disease)
                             /\ Structure(t, s, biomarker, r)
                             /\ raised' = raised
                             /\ last' = [it EXCEPT !.fit = "returned",
                                                   !.stored = TRUE]
             ELSE /\ UNCHANGED <<globalenv, result, files, raised>>
                  /\ IF result = None
                     THEN /\ StructureUnbound(t, s)
                          /\ last' = [it EXCEPT !.overwrote = FALSE]
                     ELSE /\ Structure(t, s, biomarker, The(result))
                          /\ last' = [it EXCEPT !.stored = TRUE]
    /\ UNCHANGED <<args, save_dir, pkl, pkl_writes, histogram, report,
                   setup_vars, si,
                   filtered_disease_data>>

\* every sex label has been processed
LoopDone == pc = "sex_loop" /\ si >= Len(sex_labels)

\* the loop is exhausted: pickle.dump(results, pkl_file) and return; the
\* loop's locals and its history end with the call
SaveResults ==
    /\ LoopDone
    /\ pkl' = Some(results)
    /\ pkl_writes' = pkl_writes + 1
    /\ files' = files \cup {<<"results.pkl">>}
    /\ si' = 0 /\ ci' = 0
    /\ filtered_disease_data' = None
    /\ disease_cols' = {}
    /\ result' = None
    /\ attempts' = EmptyDict
    /\ raised' = {}
    /\ last' = NoIteration
    /\ Goto("report")
    /\ UNCHANGED <<args, save_dir, histogram, report, setup_vars, results,
                   globalenv>>

(***************************************************************************)
(* generate_output_report: the content of the PDF as a list of flowables.  *)
(* A flowable and a table cell are tuples whose first element names them.  *)
(***************************************************************************)
NA == <<"N/A">>
Spacer == <<"Spacer">>
PageBreak == <<"PageBreak">>

RECURSIVE Sorted(_)
\* sorted(S) for a set of numbers
Sorted(S) ==
    IF S = {} THEN << >>
    ELSE LET m == CHOOSE x \in S : \A y \in S : x <= y
         IN <<m>> \o Sorted(S \ {m})

\* coefficient names in the order sorted() gives them
CoefNames == <<"(Intercept)", "age">>
DistParams == <<"mu", "sigma", "nu", "tau">>

\* genders.update(results.get(tissue, {}).keys()) over the tissues
Genders(res) == UNION {Keys(res[k][2]) : k \in 1..Len(res)}

\* biomarkers.update(results[tissue][gender].keys()) over tissues and genders
Biomarkers(res) ==
    UNION {UNION {Keys(res[k][2][j][2]) : j \in 1..Len(res[k][2])} :
              k \in 1..Len(res)}

\* gender_data[gender] = tissue_data.get(gender, {})
GenderData(tissue_data, gender) ==
    IF Has(tissue_data, gender) THEN Get(tissue_data, gender) ELSE EmptyDict

\* params[gender]: the model parameters, or None
Params(tissue_data, biomarker, gender) ==
    IF Has(GenderData(tissue_data, gender), biomarker)
    THEN Some(Get(GenderData(tissue_data, gender), biomarker).model_parameters)
    ELSE None

\* any(biomarker in gender_data[gender] for gender in genders)
InTissue(tissue_data, biomarker) ==
    \E j \in 1..Len(tissue_data) : Has(tissue_data[j][2], biomarker)

Header(genders) ==
    <<<<"Parameter">>>> \o [i \in 1..Len(genders) |-> <<"Value", genders[i]>>]

\* str(params[gender].get('model_type', 'N/A'))
ModelCell(p) == IF p # None THEN <<"str", The(p).model_type>> ELSE NA

\* 'N/A' if params[gender].get('aic') is None else f"{float(aic):.2f}"
AicCell(p) ==
    IF p # None
    THEN IF The(p).aic = None THEN NA ELSE <<"%.2f", The(The(p).aic)>>
    ELSE NA

\* f"{float(coefs[param_name][0]):.6f}" when the gender has the coefficient
CoefCell(p, name) ==
    IF p # None /\ name \in DOMAIN The(p).coefs
    THEN <<"%.6f", The(p).coefs[name]>>
    ELSE NA

\* an empty cell where "N/A" belongs
DistCellBlank(p, param) ==
    IF p # None /\ The(p)[param] # None
    THEN <<"str", The(The(p)[param])>>
    ELSE <<"">>

\* str(params[gender][param][0]) when the gender has the parameter
DistCell(p, param) ==
    IF p # None /\ The(p)[param] # None
    THEN <<"str", The(The(p)[param])>>
    ELSE NA

\* the rows: a label, then one cell for each gender of sorted(genders);
\* ps[i] is params[genders[i]]
ModelRow(ps) ==
    <<<<"Best model family">>>> \o [i \in 1..Len(ps) |-> ModelCell(ps[i])]

AicRow(ps) ==
    <<<<"AIC">>>> \o [i \in 1..Len(ps) |-> AicCell(ps[i])]

CoefRow(ps, name) ==
    <<<<name>>>> \o [i \in 1..Len(ps) |-> CoefCell(ps[i], name)]

DistRow(ps, param) ==
    <<<<param>>>> \o [i \in 1..Len(ps) |-> DistCell(ps[i], param)]

\* param_names: the union of the coefficient names of the genders with a result
ParamNames(ps) ==
    UNION {DOMAIN The(ps[i]).coefs : i \in {j \in 1..Len(ps) : ps[j] # None}}

\* data: header, model family, AIC, coefficients, distribution parameters
TableData(tissue_data, biomarker, genders) ==
    LET ps == << >> \o [i \in 1..Len(genders) |->
                          Params(tissue_data, biomarker, genders[i])]
        pn == ParamNames(ps)
        names == SelectSeq(CoefNames, LAMBDA n : n \in pn)
    IN <<Header(genders), ModelRow(ps), AicRow(ps)>>
       \o [i \in 1..Len(names) |-> CoefRow(ps, names[i])]
       \o [i \in 1..Len(DistParams) |-> DistRow(ps, DistParams[i])]

\* the centile image tried for a gender: the disease plot first when
\* disease_tissue is given, then the standard plot
CentilePath(fs, disease, gender, biomarker) ==
    IF disease /\ <<"centile_plot", gender, biomarker, "disease">> \in fs
    THEN <<"centile_plot", gender, biomarker, "disease">>
    ELSE <<"centile_plot", gender, biomarker>>

\* only the standard image is tried
FigureCellStandardOnly(fs, disease, gender, biomarker) ==
    IF <<"centile_plot", gender, biomarker>> \in fs
    THEN <<"Image", <<"centile_plot", gender, biomarker>> >>
    ELSE <<"Paragraph", "No growth curve available", gender>>

\* Image(img_path) if os.path.exists(img_path), else the placeholder
FigureCell(fs, disease, gender, biomarker) ==
    IF CentilePath(fs, disease, gender, biomarker) \in fs
    THEN <<"Image", CentilePath(fs, disease, gender, biomarker)>>
    ELSE <<"Paragraph", "No growth curve available", gender>>

ResidualsCell(fs, gender, biomarker) ==
    IF <<"residuals", gender, biomarker>> \in fs
    THEN <<"Image", <<"residuals", gender, biomarker>> >>
    ELSE <<"Paragraph", "No residuals plot available", gender>>

HasImage(cells) == \E i \in 1..Len(cells) : cells[i][1] = "Image"

\* the flowables of one biomarker section, lines 111-259
Section(tissue, tissue_data, biomarker, genders, fs, disease) ==
    LET figure_images ==
            << >> \o [i \in 1..Len(genders) |->
                         FigureCell(fs, disease, genders[i], biomarker)]
        residuals_images ==
            << >> \o [i \in 1..Len(genders) |->
                         ResidualsCell(fs, genders[i], biomarker)]
    IN << <<"Heading4", tissue, biomarker>>, Spacer,
          <<"Paragraph", "table caption", biomarker>>, Spacer,
          <<"Table", "parameters", tissue, biomarker,
            TableData(tissue_data, biomarker, genders)>>, Spacer >>
       \o (IF HasImage(figure_images)
           THEN << <<"Table", "figures", tissue, biomarker, figure_images>>,
                   Spacer,
                   <<"Paragraph", "figure caption", biomarker, disease>>,
                   Spacer >>
           ELSE << >>)
       \o <<PageBreak>>
       \o (IF HasImage(residuals_images)
           THEN << <<"Table", "residuals", tissue, biomarker, residuals_images>>,
                   Spacer,
                   <<"Paragraph", "residuals caption", biomarker>>,
                   Spacer >>
           ELSE << >>)

RECURSIVE Sections(_, _, _, _, _, _)
\* for biomarker in biomarkers, in the order the set is iterated
Sections(tissue, tissue_data, order, genders, fs, disease) ==
    IF order = << >> THEN << >>
    ELSE (IF InTissue(tissue_data, order[1])
          THEN Section(tissue, tissue_data, order[1], genders, fs, disease)
          ELSE << >>)
         \o Sections(tissue, tissue_data, Tail(order), genders, fs, disease)

RECURSIVE Tissues(_, _, _, _, _, _)
\* for tissue in results.keys()
Tissues(res, k, order, genders, fs, disease) ==
    IF k > Len(res) THEN << >>
    ELSE << <<"Heading3", res[k][1]>>, Spacer >>
         \o Sections(res[k][1], res[k][2], order, genders, fs, disease)
         \o Tissues(res, k + 1, order, genders, fs, disease)

\* the flowables before the tissue sections, lines 46-86
FrontMatter(fs, disease) ==
    << <<"Title">>, <<"Paragraph", "description", disease>>,
       <<"Paragraph", "analysis">> >>
    \o (IF AgeDistributionPng \in fs
        THEN << Spacer, <<"Image", AgeDistributionPng>>, Spacer,
                <<"Paragraph", "age distribution caption">>, Spacer >>
        ELSE << >>)
    \o << PageBreak, <<"Heading2", "Modelling Results">> >>

Content(res, order, fs, disease) ==
    FrontMatter(fs, disease)
    \o Tissues(res, 1, order, Sorted(Genders(res)), fs, disease)

\* the orders in which a set may be iterated
Orders(S) ==
    {q \in [1..Cardinality(S) -> S] : \A x \in S : \E i \in DOMAIN q : q[i] = x}

\* generate_output_report(save_path, runtime, input_path, disease_data_path):
\* results.pkl is loaded, `biomarkers` is iterated in some order, the PDF
\* is built; then main() returns
GenerateReport ==
    /\ pc = "report"
    /\ \E order \in Orders(Biomarkers(The(pkl))) :
          report' = Some([results |-> The(pkl), order |-> order])
    /\ files' = files \cup {<<"growth_curves_output_report.pdf">>}
    /\ pc' = "done"
    /\ exit_code' = Some(0)
    /\ UNCHANGED <<args, error, save_dir, histogram, pkl, pkl_writes, setup_vars,
                   loop_vars>>

\* the list handed to pdf.build(content)
content ==
    Content(The(report).results, The(report).order, files, args.disease_data)

Next ==
    \/ MakeSaveDir
    \/ ReadInput
    \/ ReadDisease
    \/ FindSexColumn
    \/ BuildBiomarkerColumns
    \/ DropNa
    \/ CheckR
    \/ PlotAgeDistribution
    \/ SexLoop
    \/ ProcessBiomarker
    \/ SaveResults
    \/ GenerateReport

Spec == Init /\ [][Next]_vars

(***************************************************************************)
(* Properties.                                                             *)
(***************************************************************************)
\* the exceptions main() raises in its own setup checks
SetupErrors ==
    {"ValueError: Cohort", "ValueError: disease biomarkers",
     "ValueError: sex", "ValueError: biomarker columns", "RuntimeError: R"}

\* an iteration of the combination loop has run
Iterated == last.key # << >>

\* C1: at the end of the loop, no key whose fitting call raised has an entry
\* in results and every combination of every sex was attempted; a combination
\* whose own fit returned is stored with the entry of that fit.
C1_RaisedKeyHasNoEntry ==
    /\ LoopDone =>
          /\ \A key \in raised : ~HasEntry(results, key[1], key[2], key[3])
          /\ Keys(attempts) =
                {<<Combos[k][1], sex_labels[i], Combos[k][2]>> :
                     k \in 1..Len(Combos), i \in 1..Len(sex_labels)}
    /\ (Iterated /\ last.fit = "returned") =>
          /\ HasEntry(results, last.key[1], last.key[2], last.key[3])
          /\ Get(Get(Get(results, last.key[1]), last.key[2]),
                 last.key[3]).centiles = <<last.key[2], last.key[3]>>

\* C2: a run aborts only with one of main()'s setup errors, and a run that
\* ends has exit code zero and its save directory.
C2_ValidSetupReachesEnd ==
    /\ pc = "aborted" => error \in SetupErrors
    /\ pc = "done" => exit_code = Some(0) /\ save_dir

\* C3: after a fatal setup error (no sex column, no biomarker column, no R)
\* the run has exited non-zero, no fitting call was made, no combination was
\* attempted and results.pkl was not written.
C3_FatalSetupErrorAbortsBeforeWork ==
    (pc = "aborted" /\ error \in {"ValueError: sex",
                                  "ValueError: biomarker columns",
                                  "RuntimeError: R"})
    => /\ exit_code = Some(1)
       /\ globalenv = EmptyDict
       /\ attempts = EmptyDict
       /\ results = EmptyDict
       /\ pkl = None
       /\ pkl_writes = 0
       /\ <<"results.pkl">> \notin files

C3_Witness == pc = "aborted" /\ error = "RuntimeError: R" /\ save_dir

\* the biomarker type of a key: what follows its tissue prefix
TypeOf(t, biomarker) == SubSeq(biomarker, Len(t) + 2, Len(biomarker))

\* C4: the matched disease columns end with the biomarker type of the key,
\* and with disease columns {GM_FA, WM_FA} and key WM_FA only WM_FA is matched.
C4_SuffixMatchOnly ==
    (Iterated /\ last.matching) =>
        /\ \A col \in disease_cols :
               EndsWith(col, <<US>> \o TypeOf(last.key[1], last.key[3]))
        /\ (/\ DOMAIN The(disease_tissue_map) = {Join(GM, FA), Join(WM, FA)}
            /\ last.key[3] = Join(WM, FA))
           => disease_cols = {Join(WM, FA)}

\* C5: when the sex has disease rows and no disease subset was collected
\* (no column matched, or every matched subset was empty), the fitting
\* function was still called, without disease data.
C5_NoMatchStillFits ==
    (/\ Iterated
     /\ last.matching
     /\ last.subset_errors = {}
     /\ last.data_list = {})
    => last.fit \in {"raised", "returned"}

\* C6: a malformed disease table never ends the run, and a combination whose
\* disease subsets could not be built stores nothing.
C6_MalformedDiseaseIsRecoverable ==
    /\ error # "KeyError: sex column"
    /\ (Iterated /\ last.subset_errors # {}) => ~last.stored

\* C7: results and the persisted artifact hold no empty mapping at any level.
NoEmptyMaps(res) ==
    \A k \in 1..Len(res) :
        /\ res[k][2] # EmptyDict
        /\ \A j \in 1..Len(res[k][2]) : res[k][2][j][2] # EmptyDict

C7_KeysOnlyForProcessed ==
    /\ NoEmptyMaps(results)
    /\ pkl # None => NoEmptyMaps(The(pkl))

\* C8: every key is attempted at most once and no insert overwrites an entry.
C8_NoKeyCollision ==
    /\ \A key \in Keys(attempts) : Get(attempts, key) <= 1
    /\ ~last.overwrote

\* C9: a run that got past setup and has ended wrote results.pkl exactly once,
\* and the report read the structure that was built.
C9_SerializedExactlyOnce ==
    /\ (pc = "aborted" /\ error \notin SetupErrors) => pkl_writes = 1
    /\ pc = "done" =>
           /\ pkl_writes = 1
           /\ pkl = Some(results)
           /\ The(report).results = results

\* the parameter tables of the report
IsParameterTable(f) == f[1] = "Table" /\ f[2] = "parameters"

\* the coefficient names of the genders that have a result for the biomarker
CoefsOf(res, tissue, biomarker) ==
    UNION {DOMAIN Get(Get(Get(res, tissue), g), biomarker).model_parameters.coefs :
              g \in {h \in Genders(res) : HasEntry(res, tissue, h, biomarker)}}

\* C10: in every parameter table, every row has one cell per sex in the
\* order of the header; the rows are the model family, the AIC, one per
\* coefficient and mu, sigma, nu, tau; the cells of a sex without a result for
\* the biomarker are all "N/A" and the family cell of a sex with a result is
\* that sex's model type.
C10_TableHasCellPerSex ==
    report # None =>
      LET c == content
          res == The(pkl)
          genders == Sorted(Genders(res))
      IN \A i \in 1..Len(c) :
           IsParameterTable(c[i]) =>
             LET tissue == c[i][3]
                 biomarker == c[i][4]
                 data == c[i][5]
                 coefs == CoefsOf(res, tissue, biomarker)
             IN /\ Len(data) = 3 + Cardinality(coefs) + 4
                /\ {data[r][1][1] : r \in 1..Len(data)} =
                      {"Parameter", "Best model family", "AIC", "mu",
                       "sigma", "nu", "tau"} \cup coefs
                /\ \A r \in 1..Len(data) : Len(data[r]) = 1 + Len(genders)
                /\ \A j \in 1..Len(genders) :
                      /\ data[1][j + 1] = <<"Value", genders[j]>>
                      /\ IF HasEntry(res, tissue, genders[j], biomarker)
                         THEN data[2][j + 1] =
                                <<"str", Get(Get(Get(res, tissue), genders[j]),
                                             biomarker).model_parameters.model_type>>
                         ELSE \A r \in 2..Len(data) : data[r][j + 1] = NA

C10_Witness ==
    /\ report # None
    /\ LET c == content
       IN \E i \in 1..Len(c) :
            /\ IsParameterTable(c[i])
            /\ \E g, h \in Genders(The(pkl)) :
                  /\ HasEntry(The(pkl), c[i][3], g, c[i][4])
                  /\ ~HasEntry(The(pkl), c[i][3], h, c[i][4])

\* the centile-figure slot of a sex by the fallback chain: disease image,
\* standard image, placeholder
Slot(gender, biomarker) ==
    IF args.disease_data
       /\ <<"centile_plot", gender, biomarker, "disease">> \in files
    THEN <<"Image", <<"centile_plot", gender, biomarker, "disease">> >>
    ELSE IF <<"centile_plot", gender, biomarker>> \in files
         THEN <<"Image", <<"centile_plot", gender, biomarker>> >>
         ELSE <<"Paragraph", "No growth curve available", gender>>

\* the slots of a section, one per sex in sorted order
Slots(biomarker) ==
    LET genders == Sorted(Genders(The(pkl)))
    IN << >> \o [j \in 1..Len(genders) |-> Slot(genders[j], biomarker)]

IsSectionHeading(f) == f[1] = "Heading4"

IsFigureTable(f, tissue, biomarker) ==
    f[1] = "Table" /\ f[2] = "figures" /\ f[3] = tissue /\ f[4] = biomarker

Filtered == pc \notin {"start", "read_input", "read_disease", "find_sex",
                       "biomarker_columns", "dropna"}

\* the sex values of the rows that take part in the computation
KeptSexes == {The(input_data[i].sex) : i \in 1..Len(input_data)}

\* C12: once the rows are filtered, no row of input_data lacks its sex value
\* or a required biomarker value, the sex labels are the sex values of the
\* rows kept, every fitting call was made for the rows of such a sex, and
\* filtering again gives the same rows.
C12_MissingRowsExcluded ==
    Filtered =>
       /\ \A i \in 1..Len(input_data) :
             /\ input_data[i].sex # None
             /\ \A k \in 1..Len(biomarker_columns) :
                   biomarker_columns[k] \notin input_data[i].missing
       /\ {sex_labels[i] : i \in 1..Len(sex_labels)} = KeptSexes
       /\ Has(globalenv, "input_data") =>
             Get(globalenv, "input_data")[1] \in KeptSexes
       /\ \A key \in Keys(attempts) : key[2] \in KeptSexes
       /\ DropNaRows(input_data, biomarker_columns) = input_data

\* rows were dropped, rows were kept and a fitting call was made
C12_Witness ==
    /\ dropped > 0
    /\ input_data # << >>
    /\ Has(globalenv, "input_data")

\* the entries of results as <<tissue, sex, biomarker, entry>>
Entries(res) ==
    UNION {UNION {{<<res[k][1], res[k][2][j][1], res[k][2][j][2][m][1],
                     res[k][2][j][2][m][2]>> :
                        m \in 1..Len(res[k][2][j][2])} :
                     j \in 1..Len(res[k][2])} :
              k \in 1..Len(res)}

\* C13: an iteration stores an entry only when its own fitting call
\* returned, and every entry of results was built from the result of a
\* fitting call made for the sex and biomarker of its key.
C13_EntryFromOwnFit ==
    /\ (Iterated /\ last.stored) => last.fit = "returned"
    /\ \A e \in Entries(results) : e[4].centiles = <<e[2], e[3]>>

\* the names of the keyword arguments of a call
KwargNames(kwargs) == {kwargs[i][1] : i \in 1..Len(kwargs)}

\* C14: after a fitting call, the global environment of the R runtime holds
\* the inputs passed to that call and nothing else; after a call without
\* disease data it holds no disease_data, tissue_column or tissue_type.
C14_FitSeesOnlyOwnInputs ==
    (Iterated /\ last.fit # "none") =>
        /\ Keys(globalenv) =
              IF last.with_disease
              THEN KwargNames(DiseaseKwargs(last.key[2], last.key[1],
                                            last.key[3], last.data_list))
              ELSE KwargNames(Kwargs(last.key[2], last.key[3]))
        /\ ~last.with_disease =>
              {"disease_data", "tissue_column", "tissue_type"}
                  \cap Keys(globalenv) = {}

\* C15: once a combination has been attempted or a fitting call made, and
\* from then on, dataset_age_distribution.png is in the save directory.
C15_AgePlotSavedBeforeFits ==
    (\/ attempts # EmptyDict
     \/ globalenv # EmptyDict
     \/ pc \in {"sex_loop", "combination", "report", "done"})
    => AgeDistributionPng \in files

\* the loop has ended, fitting calls were made and every one of them raised
C15_Witness ==
    /\ LoopDone
    /\ raised # {}
    /\ results = EmptyDict
    /\ AgeDistributionPng \in files

\* C16: the plotter never fails on the number of sex labels, and the figure
\* it drew has one histogram for each sex label, in their order.
C16_PlotterTakesAnyNumberOfLabels ==
    /\ error # "IndexError: colors"
    /\ histogram # None =>
          /\ Len(The(histogram).series) = Len(sex_labels)
          /\ \A i \in 1..Len(sex_labels) :
                The(histogram).series[i].gender = sex_labels[i]

\* the ages of the rows the plotter is given
Ages == {input_data[i].age : i \in 1..Len(input_data)}

\* bin edges e of n bins from lo to hi: n + 1 edges, the first at lo, the
\* last at hi, all bins of the same width; the edges are in units of 1/n
EqualWidthBins(e, n, lo, hi) ==
    /\ Len(e) = n + 1
    /\ The(e[1]) = lo * n
    /\ The(e[n + 1]) = hi * n
    /\ \A i \in 1..n : The(e[i + 1]) - The(e[i]) = hi - lo

\* the histogram of every sex label uses the common edges
CommonBins ==
    \A i \in 1..Len(The(histogram).series) :
        The(histogram).series[i].bins = The(histogram).bins

\* C17 as stated: 30 equal-width bins (31 edges) from the minimum to the
\* maximum age of all rows, the same for every sex label.
C17_ThirtyBins ==
    (histogram # None /\ input_data # << >>) =>
        /\ \E lo, hi \in Ages :
              /\ \A a \in Ages : lo <= a /\ a <= hi
              /\ EqualWidthBins(The(histogram).bins, 30, lo, hi)
        /\ CommonBins

\* a flowable that opens a biomarker section or a tissue
IsHeading(f) == f[1] \in {"Heading3", "Heading4"}

\* the flowables of the section that starts at index i: up to the next
\* heading or the end of the content
SectionEnd(c, i) ==
    IF \E j \in (i + 1)..Len(c) : IsHeading(c[j])
    THEN (CHOOSE j \in (i + 1)..Len(c) :
             IsHeading(c[j]) /\ \A k \in (i + 1)..(j - 1) : ~IsHeading(c[k])) - 1
    ELSE Len(c)

\* C18: every rendered biomarker section holds exactly one page break, which
\* comes after the section's figure table and residuals table.
C18_PageBreakAfterFigures ==
    report # None =>
      LET c == content
      IN \A i \in 1..Len(c) :
           IsSectionHeading(c[i]) =>
             LET span == i..SectionEnd(c, i)
                 breaks == {k \in span : c[k] = PageBreak}
             IN /\ Cardinality(breaks) = 1
                /\ \A k \in span :
                      (c[k][1] = "Table" /\ c[k][2] \in {"figures", "residuals"})
                      => \A b \in breaks : k < b

=============================================================================
